---- MODULE Spec2Model ----
(***************************************************************************)
(* A model of tappet's tunnel engine (src/tappet.c): one side of the       *)
(* tunnel, its select() loop, the datagram drain loop, the tap drain loop  *)
(* and the idle keepalive, together with an environment that delivers      *)
(* datagrams and tap frames and makes system calls fail.                   *)
(*                                                                         *)
(* Widths are scaled: a nonce is a sequence of NonceLen binary digits      *)
(* (the program: 24 bytes), laid out as <<side tag, prefix, counter>>.     *)
(***************************************************************************)
EXTENDS Integers, Sequences, FiniteSets

\* ------------------------------------------------------------------ bounds

\* Number of digits of the nonce counter (the program's counter has 19 bytes).
CtrBytes == 2

\* The peer's nonces are its initial nonce advanced 0..MaxPeerNonce times.
MaxPeerNonce == 1

\* The number of values of the nonce prefix (the program's uint32_t has
\* 2^32); the prefix after the largest is 0.
PrefixMod == 4

\* The frames the sending side forwards in an end-to-end run.
MaxFrames == 2

\* The largest argc tried.
MaxArgc == 8

\* ------------------------------------------------------- program constants

\* crypto_box_ZEROBYTES: the zero prefix of a plaintext buffer.
ZEROBYTES == 32

\* crypto_box_NONCEBYTES, as added to biggest_tried.
NONCEBYTES == 24

\* ------------------------------------------------------------------ nonces

\* Index of the side tag, of the prefix and of the first counter digit.
NonceLen == 2 + CtrBytes

\* The values of one nonce digit (the program's bytes have 256).
Digits == {0, 1}

Radix == Cardinality(Digits)

\* memset(theirnonce, 0, sizeof(theirnonce))
ZeroNonce == [i \in 1..NonceLen |-> 0]

\* memcmp(a, b, NONCEBYTES): the sign of the first differing byte, bytes
\* compared as unsigned values from index 1 up (big-endian order).
RECURSIVE memcmpFrom(_, _, _)
memcmpFrom(a, b, i) ==
    IF i > Len(a) THEN 0
    ELSE IF a[i] < b[i] THEN -1
    ELSE IF a[i] > b[i] THEN 1
    ELSE memcmpFrom(a, b, i + 1)

memcmp(a, b) == memcmpFrom(a, b, 1)

\* generate_nonce(nonce_prefix, ournonce): byte 0 the side tag, then the
\* prefix, then a zero counter.  The call passes the prefix only.
generate_nonce(prefix) ==
    [i \in 1..NonceLen |-> IF i = 2 THEN prefix ELSE 0]

\* The counter digits are nonce[3..NonceLen], least significant first.
RECURSIVE IncFrom(_, _)
IncFrom(nonce, i) ==
    IF i > NonceLen THEN nonce
    ELSE IF nonce[i] = Radix - 1
         THEN IncFrom([nonce EXCEPT ![i] = 0], i + 1)
         ELSE [nonce EXCEPT ![i] = nonce[i] + 1]

\* update_nonce(ournonce): adds one to the little-endian counter; a
\* fixed-width increment, so the counter at its maximum wraps to zero.
update_nonce(nonce) == IncFrom(nonce, 3)

\* The counter is at its maximum: the next update_nonce overflows.
CounterMax(nonce) == \A i \in 3..NonceLen : nonce[i] = Radix - 1

RECURSIVE Advance(_, _)
Advance(nonce, k) == IF k = 0 THEN nonce ELSE Advance(update_nonce(nonce), k - 1)

\* Nonces the peer (side tag 1) puts on the wire, and the all-zero nonce.
PeerNonces ==
    { Advance([generate_nonce(1) EXCEPT ![1] = 1], k) : k \in 0..MaxPeerNonce }

InNonces == PeerNonces \cup {ZeroNonce}

\* --------------------------------------------------------------- addresses

\* A sockaddr with sa_family = 0 (the memset at line 153).
NoAddr == "none"

\* An IPv4 and an IPv6 source address.
Addrs == {"a4", "a6"}

\* The server address given on the command line.
ServerAddr == "a4"

\* socklen_t of an address; sizeof(struct sockaddr_storage) for none.
AddrLen(a) == IF a = "a4" THEN 16 ELSE IF a = "a6" THEN 28 ELSE 128

\* ---------------------------------------------------------------- payloads

\* Sizes a peer's keepalive advertises.
AdvSizes == {0, 300}

\* Lines 334-341: the payload of a keepalive, 0xFE and the size as two
\* bytes, most significant first.  A payload is plen bytes after the zero
\* prefix; fe says whether the first is 0xFE, hi and lo are the two after it.
KeepalivePayload(size) ==
    [plen |-> 3, fe |-> TRUE, hi |-> (size \div 256) % 256, lo |-> size % 256]

\* Line 267: the size read from the two bytes after the 0xFE.
AdvertSize(pay) == pay.hi * 256 + pay.lo

\* Payloads of inbound datagrams: keepalives, a three-byte payload that
\* does not start with 0xFE, and payloads of other lengths.
Payloads ==
    { KeepalivePayload(s) : s \in AdvSizes }
    \cup { [plen |-> 3, fe |-> FALSE, hi |-> 1, lo |-> 44] }
    \cup { [plen |-> l, fe |-> FALSE, hi |-> 0, lo |-> 0] : l \in {32, 63} }

\* What is in ptbuf when no payload was decrypted into it.
NoPayload == [plen |-> 0, fe |-> FALSE, hi |-> 0, lo |-> 0]

\* Inbound datagrams: nonce, source address, whether the authenticator
\* verifies under the shared key, and the payload.  A datagram whose
\* authenticator does not verify has no plaintext; clen is the length of
\* its ciphertext less the authenticator.
Datagrams ==
    { [nonce |-> n, from |-> a, auth |-> TRUE, pay |-> p, clen |-> p.plen] :
        n \in InNonces, a \in Addrs, p \in Payloads }
    \cup
    { [nonce |-> n, from |-> a, auth |-> FALSE, pay |-> NoPayload, clen |-> 63] :
        n \in InNonces, a \in Addrs }

\* Lengths of frames read from the tap.
TapLens == {64}

\* Negative results of udp_read and decrypt: -1 asks for the packet to be
\* dropped; the value of the other indications is set outside tappet.c.
DropCode == -1

FatalCodes == {-2, -3}

\* -------------------------------------------------------------------- main

\* argv[n] for n <= argc: an argument, or the null pointer that ends argv.
argv(argc, n) == IF n < argc THEN "arg" ELSE "null"

\* get_nonce_prefix(path) with nf in the nonce file: reads the value, adds
\* one, writes it back and returns it; returns 0 and leaves the file alone
\* when it cannot open, read or write the file (ok is FALSE, or there is
\* no path).
get_nonce_prefix(path, ok, nf) ==
    IF path = "null" \/ ~ok
    THEN [prefix |-> 0, file |-> nf]
    ELSE [prefix |-> (nf + 1) % PrefixMod, file |-> (nf + 1) % PrefixMod]

\* Every prefix accepted, zero too.
PrefixRefusedNever(prefix) == FALSE

\* Lines 92-93: main returns -1 when the prefix is zero.
PrefixRefused(prefix) == prefix = 0

\* The outcome of one invocation: the arguments it was given, the calls it
\* made in order, what main returned (0 while tunnel() runs), whether
\* tunnel() was entered and with which nonce_prefix and listen.
Outcome(argc, dashl, calls, exit, started, prefix) ==
    [argc |-> argc, dashl |-> dashl, calls |-> calls, exit |-> exit,
     started |-> started, prefix |-> prefix]

\* Lines 16-109: main with argc arguments, argv[1] being "-l" or not
\* (dashl), the nonce file holding nf, and e telling which of its calls
\* succeed.  The result is the outcome and the nonce file afterwards.
main(argc, dashl, e, nf) ==
    LET n  == IF dashl THEN 2 ELSE 1
        np == get_nonce_prefix(argv(argc, n + 5), e.nonce, nf)
        Out(calls, exit, started, prefix, file) ==
            [run |-> Outcome(argc, dashl, calls, exit, started, prefix),
             file |-> file]
    IN  IF argc < 7 THEN Out(<<>>, -1, FALSE, 0, nf)
        ELSE IF e.root THEN Out(<<>>, -1, FALSE, 0, nf)
        ELSE IF ~e.tap THEN Out(<<"tap_attach">>, -1, FALSE, 0, nf)
        ELSE IF ~e.oursk
             THEN Out(<<"tap_attach", "read_key">>, -1, FALSE, 0, nf)
        ELSE IF ~e.addr
             THEN Out(<<"tap_attach", "read_key", "get_sockaddr">>,
                      -1, FALSE, 0, nf)
        ELSE IF ~e.theirpk
             THEN Out(<<"tap_attach", "read_key", "get_sockaddr",
                        "read_key">>, -1, FALSE, 0, nf)
        ELSE IF PrefixRefused(np.prefix)
             THEN Out(<<"tap_attach", "read_key", "get_sockaddr",
                        "read_key", "get_nonce_prefix">>,
                      -1, FALSE, 0, np.file)
        ELSE IF ~e.sock
             THEN Out(<<"tap_attach", "read_key", "get_sockaddr",
                        "read_key", "get_nonce_prefix", "udp_socket">>,
                      -1, FALSE, 0, np.file)
        ELSE Out(<<"tap_attach", "read_key", "get_sockaddr", "read_key",
                   "get_nonce_prefix", "udp_socket", "tunnel">>,
                 0, TRUE, np.prefix, np.file)

\* What main meets: running as root or not, and which calls succeed:
\* tap_attach, the two read_key, get_sockaddr, the nonce file's reads and
\* writes, udp_socket.
Envs ==
    [root : BOOLEAN, tap : BOOLEAN, oursk : BOOLEAN, addr : BOOLEAN,
     theirpk : BOOLEAN, nonce : BOOLEAN, sock : BOOLEAN]

\* No invocation yet.
NoRun == Outcome(0, FALSE, <<>>, 0, FALSE, 0)

\* What a step reports when it read no datagram.
NoRx == [kind |-> "none", from |-> NoAddr, pay |-> NoPayload]

VARIABLES
    listen,         \* 1 for the listener (-l), 0 for the connector
    pc,             \* "start", "select", "udp", "tap", "idle", "done"
    ret,            \* tunnel()'s return value once pc = "done", else 0
    peer,           \* peeraddr: NoAddr or an address
    peerlen,
    ournonce,
    theirnonce,
    biggest_rcvd,
    biggest_sent,
    biggest_tried,
    nfds,           \* select()'s result
    udpReady,       \* FD_ISSET(udp, &r)
    tapReady,       \* FD_ISSET(tap, &r)
    udpWaiting,     \* whether a datagram waits unread on the socket (the
                    \* next one arrives by Arrive, at any time)
    tapWaiting,     \* whether a frame waits unread on the tap
    wire,           \* the datagrams the last step put on the wire, in order
    tapw,           \* the tap writes the last step attempted, in order
    tapin,          \* the frame length the last step read from the tap, or 0
    rx,             \* what the last step read from the socket
    lastNonce,      \* nonce of the latest datagram put on the wire, or <<>>
    ptzero,         \* whether ptbuf[0..ZEROBYTES) is all zero
    noncefile,      \* the value in the nonce prefix file
    run,            \* the outcome of the latest invocation of main
    prevrun         \* whether the invocation before that one entered
                    \* tunnel(), and with which nonce_prefix

vars == <<listen, pc, ret, peer, peerlen, ournonce, theirnonce, biggest_rcvd,
          biggest_sent, biggest_tried, nfds, udpReady, tapReady, udpWaiting,
          tapWaiting, wire, tapw, tapin, rx, lastNonce, ptzero, noncefile,
          run, prevrun>>

\* What main works on before it enters tunnel().
mainState == <<noncefile, run, prevrun>>

tunnelState == <<peer, peerlen, ournonce, theirnonce, biggest_rcvd,
                 biggest_sent, biggest_tried, ptzero>>

\* -------------------------------------------------------------------- init

\* The state on entry to tunnel(), after lines 141-153.
Init ==
    /\ listen \in {0, 1}
    /\ pc = "start"
    /\ ret = 0
    /\ peer = NoAddr
    /\ peerlen = AddrLen(NoAddr)
    /\ ournonce \in { generate_nonce(p) : p \in Digits \ {0} }
    /\ theirnonce = ZeroNonce
    /\ biggest_rcvd = 0
    /\ biggest_sent = 0
    /\ biggest_tried = 0
    /\ nfds = 0
    /\ udpReady = FALSE
    /\ tapReady = FALSE
    /\ udpWaiting = FALSE
    /\ tapWaiting = FALSE
    /\ wire = <<>>
    /\ tapw = <<>>
    /\ tapin = 0
    /\ rx = NoRx
    /\ lastNonce = <<>>
    /\ ptzero = TRUE
    /\ noncefile = 0
    /\ run = NoRun
    /\ prevrun = [started |-> FALSE, prefix |-> 0]

Max(a, b) == IF a < b THEN b ELSE a

\* peer->sa_family != 0
PeerKnown(p) == p # NoAddr

\* return n from tunnel()
Return(n) ==
    /\ pc' = "done"
    /\ ret' = n

\* The outputs of a step that sends nothing, touches no tap and reads no
\* datagram.
Quiet ==
    /\ wire' = <<>>
    /\ tapw' = <<>>
    /\ tapin' = 0
    /\ rx' = NoRx

\* udp_write(udp, nonce, c, n, peer, peerlen): one datagram to peer.
udp_write(dgram) == <<dgram>>

\* The step put datagrams ds on the wire: the nonce of the last is recorded.
Sent(ds) ==
    /\ wire' = ds
    /\ lastNonce' = IF ds = <<>> THEN lastNonce ELSE ds[Len(ds)].nonce

\* ------------------------------------------------------------- keepalives

\* Lines 337-348: the keepalive datagram send_keepalive builds from size
\* and sends to peer under the nonce it is given, which it does not update.
send_keepalive(nonce, size, to, tolen) ==
    udp_write([kind |-> "keepalive", nonce |-> nonce,
               pay |-> KeepalivePayload(size), to |-> to, tolen |-> tolen])

\* ------------------------------------------------------------------- start

\* Lines 155-177: the connector copies the server address into peer and
\* sends the startup keepalive under the nonce as generated; ok says
\* whether send_keepalive succeeded.
Start ==
    /\ pc = "start"
    /\ \/ /\ listen = 1
          /\ pc' = "select"
          /\ Sent(<<>>)
          /\ UNCHANGED <<ret, peer, peerlen>>
       \/ /\ listen = 0
          /\ peer' = ServerAddr
          /\ peerlen' = AddrLen(ServerAddr)
          /\ \E ok \in BOOLEAN :
                IF ok
                THEN /\ Sent(send_keepalive(ournonce, 0, peer', peerlen'))
                     /\ pc' = "select"
                     /\ UNCHANGED ret
                ELSE /\ Sent(<<>>)
                     /\ Return(-1)
    /\ tapw' = <<>>
    /\ tapin' = 0
    /\ rx' = NoRx
    /\ UNCHANGED <<mainState, listen, ournonce, theirnonce, biggest_rcvd, biggest_sent,
                   biggest_tried, nfds, udpReady, tapReady, udpWaiting,
                   tapWaiting, ptzero>>

\* ------------------------------------------------------------------ select

\* Lines 201-202: the tap is put in the read set only when the peer is known.
TapWatched(p) == PeerKnown(p)

\* Lines 193-204: the socket is always watched; select returns the number
\* of ready descriptors, 0 on timeout.
Select ==
    /\ pc = "select"
    /\ udpReady' = udpWaiting
    /\ tapReady' = (TapWatched(peer) /\ tapWaiting)
    /\ nfds' = (IF udpReady' THEN 1 ELSE 0) + (IF tapReady' THEN 1 ELSE 0)
    /\ pc' = IF udpReady' THEN "udp" ELSE IF tapReady' THEN "tap" ELSE "idle"
    /\ Quiet
    /\ UNCHANGED <<mainState, listen, ret, tunnelState, udpWaiting, tapWaiting,
                   lastNonce>>

\* Lines 205-208: select() failed.
SelectFail ==
    /\ pc = "select"
    /\ nfds' = -1
    /\ Return(-1)
    /\ Quiet
    /\ UNCHANGED <<mainState, listen, tunnelState, udpReady, tapReady, udpWaiting,
                   tapWaiting, lastNonce>>

\* ------------------------------------------------------- datagram drain loop

\* Line 230: the candidate passes unless memcmp(theirnonce, newnonce) >= 0.
Fresh(theirs, new) == ~(memcmp(theirs, new) >= 0)

\* Line 240: the packet is dropped and the loop carries on.
IsDrop(n) == n = -1

\* Line 243: the tunnel returns n.
IsFatal(n) == n < -2

\* Line 264: the decrypted length that is too short to be written to the tap.
FrameMin == 64

TooShort(n) == n < FrameMin

\* Any three-byte payload taken for an advertisement.
IsAdvertAnyFirstByte(n, pay) == n - ZEROBYTES = 3

\* Line 266: a three-byte payload whose first byte is 0xFE.
IsAdvert(n, pay) == n - ZEROBYTES = 3 /\ pay.fe

\* The write starting at ptbuf instead of ptbuf+ZEROBYTES, n bytes long.
TapWritesWhole(n, ok) == << [len |-> n, ok |-> ok] >>

\* Line 274: one write of the n - ZEROBYTES bytes after the zero prefix;
\* ok says whether tap_write succeeded.
TapWrites(n, ok) == << [len |-> n - ZEROBYTES, ok |-> ok] >>

\* What the iteration read: a datagram that was not fresh ("stale"), one
\* whose authenticator did not verify ("forged"), one that decrypted ("ok"),
\* or a negative result other than those ("error").
RxKind(n0, newnonce, dec) ==
    IF n0 < 0 THEN "error"
    ELSE IF ~(memcmp(theirnonce, newnonce) < 0) THEN "stale"
    ELSE IF dec = -1 THEN "forged"
    ELSE IF dec < 0 THEN "error"
    ELSE "ok"

\* Lines 229-275 for one result n0 of udp_read (n0 # 0) that left newnonce,
\* newpeer and pay in the buffers; dec is what decrypt returns if it is
\* called, tw whether tap_write succeeds if it is called.
UdpHandle(n0, newnonce, newpeer, pay, dec, tw) ==
    LET rcvd == n0 % 65536
        n1 == IF n0 > 0 /\ ~Fresh(theirnonce, newnonce) THEN -1 ELSE n0
        n  == IF n1 > 0 THEN dec ELSE n1
        kind == RxKind(n0, newnonce, dec)
    IN  /\ rx' = [kind |-> kind,
                  from |-> IF kind = "ok" THEN newpeer ELSE NoAddr,
                  pay |-> IF kind = "ok" THEN pay ELSE NoPayload]
        /\ IF IsDrop(n)
           THEN /\ UNCHANGED <<pc, ret, theirnonce, peer, peerlen,
                               biggest_rcvd, biggest_sent>>
                /\ tapw' = <<>>
           ELSE IF IsFatal(n)
           THEN /\ Return(n)
                /\ UNCHANGED <<theirnonce, peer, peerlen, biggest_rcvd,
                               biggest_sent>>
                /\ tapw' = <<>>
           ELSE /\ theirnonce' = newnonce
                /\ peer' = newpeer
                /\ peerlen' = AddrLen(newpeer)
                /\ biggest_rcvd' = Max(biggest_rcvd, rcvd)
                /\ IF TooShort(n)
                   THEN /\ biggest_sent' =
                               IF IsAdvert(n, pay)
                               THEN Max(biggest_sent, AdvertSize(pay))
                               ELSE biggest_sent
                        /\ tapw' = <<>>
                        /\ UNCHANGED <<pc, ret>>
                   ELSE /\ UNCHANGED biggest_sent
                        /\ tapw' = TapWrites(n, tw)
                        /\ IF tw
                           THEN UNCHANGED <<pc, ret>>
                           ELSE Return(-1)

\* udp_read's result for a datagram: the length of its ciphertext, which is
\* the length of the plaintext with its zero prefix.
udp_read(d) == d.clen + ZEROBYTES

\* decrypt's results for a datagram of length n: n when the authenticator
\* verifies, the drop indication when it does not, or a fatal indication.
decrypt(d, n) ==
    (IF d.auth THEN {n} ELSE {DropCode}) \cup FatalCodes

\* The leading bytes of decrypt's output that are zero whatever it is given.
DecryptZeroes == 16

\* Line 233: decrypt writes its output into ptbuf from offset 0; whether
\* ptbuf[0..ZEROBYTES) is all zero afterwards, given whether it was before.
DecryptPrefix(was) ==
    IF DecryptZeroes >= ZEROBYTES THEN {TRUE} ELSE {TRUE, FALSE}

\* tap_write's results, as far as line 274 tells them apart: success or
\* failure; it is called only for a length that is not TooShort.
tap_write(n) == IF TooShort(n) THEN {TRUE} ELSE {TRUE, FALSE}

\* Where the loop at 217-276 goes when it is left (lines 284, 312).
AfterUdp(tr) == IF tr THEN "tap" ELSE "idle"

\* Lines 226-227: udp_read returned 0, the loop is left.
UdpWouldBlock ==
    /\ pc = "udp"
    /\ ~udpWaiting
    /\ pc' = AfterUdp(tapReady)
    /\ Quiet
    /\ UNCHANGED <<mainState, listen, ret, tunnelState, nfds, udpReady, tapReady,
                   udpWaiting, tapWaiting, lastNonce>>

\* One iteration of the loop on the datagram read from the socket, which
\* is one of D; never holds the results decrypt does not return in the runs
\* looked at.
UdpDatagramBut(D, never) ==
    /\ pc = "udp"
    /\ udpWaiting
    /\ udpWaiting' = FALSE
    /\ \E d \in D : \E dec \in decrypt(d, udp_read(d)) \ never :
       \E tw \in tap_write(dec) :
            /\ UdpHandle(udp_read(d), d.nonce, d.from, d.pay, dec, tw)
            /\ ptzero' \in IF Fresh(theirnonce, d.nonce)
                            THEN DecryptPrefix(ptzero)
                            ELSE {ptzero}
    /\ wire' = <<>>
    /\ tapin' = 0
    /\ UNCHANGED <<mainState, listen, ournonce, biggest_tried, nfds, udpReady, tapReady,
                   tapWaiting, lastNonce>>

UdpDatagramOf(D) == UdpDatagramBut(D, {})

UdpDatagram == UdpDatagramOf(Datagrams)

\* What an uninitialised local can hold when result n lets it be read:
\* any value of S; the value is not looked at for the drop and return paths.
Garbage(n, S, dflt) == IF IsDrop(n) \/ IsFatal(n) THEN {dflt} ELSE S

\* One iteration of the loop in which udp_read fails with a negative
\* result: newnonce and newpeer are uninitialised locals (lines 218-220)
\* and udp_read may have left anything in them.
UdpReadError ==
    /\ pc = "udp"
    /\ \E code \in {DropCode} \cup FatalCodes :
       \E nn \in Garbage(code, InNonces, ZeroNonce) :
       \E np \in Garbage(code, Addrs \cup {NoAddr}, NoAddr) :
            UdpHandle(code, nn, np, NoPayload, code, TRUE)
    /\ wire' = <<>>
    /\ tapin' = 0
    /\ UNCHANGED <<mainState, listen, ournonce, biggest_tried, nfds, udpReady, tapReady,
                   udpWaiting, tapWaiting, lastNonce, ptzero>>

\* ------------------------------------------------------------ tap drain loop

\* encrypt's result for a plaintext of n bytes: n, or a negative value.
encrypt(n) == {n, -1}

\* The frame sent under the nonce of the datagram before it.
FrameNonceKept(nonce) == nonce

\* Line 288: the nonce the frame is encrypted and sent under.
FrameNonce(nonce) == update_nonce(nonce)

\* Lines 289-301: the frame of len bytes as sent to peer under nonce.
FrameDgrams(nonce, len, to, tolen) ==
    udp_write([kind |-> "frame", nonce |-> nonce, len |-> len,
               to |-> to, tolen |-> tolen])

\* Lines 292-293: tap_read returned 0, the loop is left.
TapWouldBlock ==
    /\ pc = "tap"
    /\ ~tapWaiting
    /\ pc' = "idle"
    /\ Quiet
    /\ UNCHANGED <<mainState, listen, ret, tunnelState, nfds, udpReady, tapReady,
                   udpWaiting, tapWaiting, lastNonce>>

\* Lines 286, 295-296: tap_read failed.
TapReadError ==
    /\ pc = "tap"
    /\ Return(-1)
    /\ Quiet
    /\ UNCHANGED <<mainState, listen, tunnelState, nfds, udpReady, tapReady,
                   udpWaiting, tapWaiting, lastNonce>>

\* Lines 286-302 for a frame of len bytes: the nonce is updated, the frame
\* encrypted and sent to peer; uw says whether udp_write succeeds.
TapFrame ==
    /\ pc = "tap"
    /\ tapWaiting
    /\ tapWaiting' = FALSE
    /\ \E len \in TapLens : \E n \in encrypt(len + ZEROBYTES) :
       \E uw \in BOOLEAN :
         /\ tapin' = len
         /\ ournonce' = FrameNonce(ournonce)
         /\ IF n < 0
            THEN /\ Return(n)
                 /\ Sent(<<>>)
                 /\ UNCHANGED biggest_tried
            ELSE /\ biggest_tried' = Max(biggest_tried, n + NONCEBYTES)
                 /\ IF uw
                    THEN /\ Sent(FrameDgrams(ournonce', len, peer, peerlen))
                         /\ UNCHANGED <<pc, ret>>
                    ELSE /\ Sent(<<>>)
                         /\ Return(-1)
    /\ tapw' = <<>>
    /\ rx' = NoRx
    /\ UNCHANGED <<mainState, listen, peer, peerlen, theirnonce, biggest_rcvd,
                   biggest_sent, nfds, udpReady, tapReady, udpWaiting,
                   ptzero>>

\* ---------------------------------------------------------- idle keepalive

\* Line 312: whether the idle keepalive is due.
KeepaliveDue(n, p) == n = 0 /\ PeerKnown(p)

\* Lines 312-317: after a timeout with the peer known the nonce is updated
\* and a keepalive carrying biggest_rcvd is sent; then the loop starts over
\* (r is cleared at line 193; r and nfds are locals of the loop body).
Idle ==
    /\ pc = "idle"
    /\ IF KeepaliveDue(nfds, peer)
       THEN /\ ournonce' = update_nonce(ournonce)
            /\ \E ok \in BOOLEAN :
                IF ok
                THEN /\ Sent(send_keepalive(ournonce', biggest_rcvd, peer,
                                            peerlen))
                     /\ pc' = "select"
                     /\ UNCHANGED ret
                ELSE /\ Sent(<<>>)
                     /\ Return(-1)
       ELSE /\ pc' = "select"
            /\ Sent(<<>>)
            /\ UNCHANGED <<ret, ournonce>>
    /\ tapw' = <<>>
    /\ tapin' = 0
    /\ rx' = NoRx
    /\ nfds' = 0
    /\ udpReady' = FALSE
    /\ tapReady' = FALSE
    /\ UNCHANGED <<mainState, listen, peer, peerlen, theirnonce, biggest_rcvd,
                   biggest_sent, biggest_tried, udpWaiting, tapWaiting,
                   ptzero>>

\* ------------------------------------------------------------- environment

\* A datagram arrives on the UDP socket.
Arrive ==
    /\ pc # "done"
    /\ ~udpWaiting
    /\ udpWaiting' = TRUE
    /\ Quiet
    /\ UNCHANGED <<mainState, listen, pc, ret, tunnelState, nfds, udpReady, tapReady,
                   tapWaiting, lastNonce>>

\* The local network hands a frame to the tap device.
TapArrive ==
    /\ pc # "done"
    /\ ~tapWaiting
    /\ tapWaiting' = TRUE
    /\ Quiet
    /\ UNCHANGED <<mainState, listen, pc, ret, tunnelState, nfds, udpReady, tapReady,
                   udpWaiting, lastNonce>>

\* A step of tunnel().
TunnelStep ==
    \/ Start
    \/ Select
    \/ SelectFail
    \/ UdpWouldBlock
    \/ UdpDatagram
    \/ UdpReadError
    \/ TapWouldBlock
    \/ TapReadError
    \/ TapFrame
    \/ Idle

Next ==
    \/ Start
    \/ Select
    \/ SelectFail
    \/ UdpWouldBlock
    \/ UdpDatagram
    \/ UdpReadError
    \/ TapWouldBlock
    \/ TapReadError
    \/ TapFrame
    \/ Idle
    \/ Arrive
    \/ TapArrive

Spec == Init /\ [][Next]_vars

\* The datagrams of the runs checked for progress: from the server's
\* address, forged or carrying a frame.
LiveDatagrams ==
    { d \in Datagrams : d.from = ServerAddr /\ (d.auth => d.pay.plen = 63) }

LiveUdpDatagram == UdpDatagramOf(LiveDatagrams)

LiveTunnelStep ==
    \/ Start
    \/ Select
    \/ SelectFail
    \/ UdpWouldBlock
    \/ LiveUdpDatagram
    \/ UdpReadError
    \/ TapWouldBlock
    \/ TapReadError
    \/ TapFrame
    \/ Idle

LiveNext ==
    \/ Start
    \/ Select
    \/ SelectFail
    \/ UdpWouldBlock
    \/ LiveUdpDatagram
    \/ UdpReadError
    \/ TapWouldBlock
    \/ TapReadError
    \/ TapFrame
    \/ Idle
    \/ Arrive
    \/ TapArrive

\* The process keeps running, and reads do not fail for ever: a read of
\* an endpoint that stays empty finds it empty, a read of an endpoint that
\* has something to return returns it.
FairSpec ==
    /\ Init
    /\ [][LiveNext]_vars
    /\ WF_vars(LiveTunnelStep)
    /\ WF_vars(UdpWouldBlock)
    /\ WF_vars(LiveUdpDatagram)
    /\ WF_vars(TapWouldBlock)
    /\ WF_vars(TapFrame)

\* ---------------------------------------------------------- two-sided run

\* The sizes a peer running this program can advertise: its biggest_rcvd,
\* which is 0 or the length udp_read gave it for a datagram this side
\* sent: ZEROBYTES + 3 for the connector's startup keepalive, and
\* biggest_tried - NONCEBYTES for this side's biggest frame.
PeerAdverts ==
    {0}
    \cup (IF listen = 0 /\ lastNonce # <<>> THEN {ZEROBYTES + 3} ELSE {})
    \cup (IF biggest_tried > 0 THEN {biggest_tried - NONCEBYTES} ELSE {})

\* What such a peer sends: keepalives advertising one of these sizes and
\* the frames of its tap, all authentic.
PairDatagrams ==
    { [nonce |-> n, from |-> a, auth |-> TRUE, pay |-> p, clen |-> p.plen] :
        n \in PeerNonces, a \in Addrs,
        p \in { KeepalivePayload(sz) : sz \in PeerAdverts }
              \cup { [plen |-> l, fe |-> FALSE, hi |-> 0, lo |-> 0] :
                        l \in TapLens } }

PairUdpDatagram == UdpDatagramOf(PairDatagrams)

PairNext ==
    \/ Start
    \/ Select
    \/ SelectFail
    \/ UdpWouldBlock
    \/ PairUdpDatagram
    \/ UdpReadError
    \/ TapWouldBlock
    \/ TapReadError
    \/ TapFrame
    \/ Idle
    \/ Arrive
    \/ TapArrive

\* One side of a tunnel whose other side runs the same program.
PairSpec == Init /\ [][PairNext]_vars

\* -------------------------------------------------------------- reflection

\* This side's latest datagram as the network can hand it back: under the
\* nonce it was sent with, from any address, authentic because encrypt and
\* decrypt use the one key k (line 144), with a payload this side sends:
\* a keepalive (size 0 at startup, biggest_rcvd later) or, once a frame
\* has been sent, a frame.
Reflections ==
    IF lastNonce = <<>> THEN {}
    ELSE { [nonce |-> lastNonce, from |-> a, auth |-> TRUE, pay |-> p,
            clen |-> p.plen] :
             a \in Addrs,
             p \in { KeepalivePayload(sz) : sz \in {0, biggest_rcvd} }
                   \cup (IF biggest_tried > 0
                         THEN { [plen |-> l, fe |-> FALSE, hi |-> 0,
                                 lo |-> 0] : l \in TapLens }
                         ELSE {}) }

\* The datagrams of the runs checked for reflection: the peer's, from the
\* server's address, and this side's own.
ReflectDatagrams ==
    { d \in Datagrams : d.from = ServerAddr } \cup Reflections

ReflectUdpDatagram == UdpDatagramOf(ReflectDatagrams)

ReflectNext ==
    \/ Start
    \/ Select
    \/ SelectFail
    \/ UdpWouldBlock
    \/ ReflectUdpDatagram
    \/ UdpReadError
    \/ TapWouldBlock
    \/ TapReadError
    \/ TapFrame
    \/ Idle
    \/ Arrive
    \/ TapArrive

\* The tunnel on a network that also returns this side's datagrams to it.
ReflectSpec == Init /\ [][ReflectNext]_vars

\* ------------------------------------------------------------- end to end

\* Lines 286-301 on the sending side: its k-th frame goes out under its
\* first nonce updated k times.
SenderNonce(k) == Advance([generate_nonce(1) EXCEPT ![1] = 1], k)

\* The sender's frames as datagrams; the network delivers any of them at
\* any time, so it can lose, repeat and reorder them.
E2EDatagrams ==
    { [nonce |-> SenderNonce(k), from |-> ServerAddr, auth |-> TRUE,
       pay |-> [plen |-> l, fe |-> FALSE, hi |-> 0, lo |-> 0], clen |-> l] :
         k \in 1..MaxFrames, l \in TapLens }

\* The receiver's decrypt meets no internal error in these runs.
E2EUdpDatagram == UdpDatagramBut(E2EDatagrams, FatalCodes)

E2ENext ==
    \/ Start
    \/ Select
    \/ SelectFail
    \/ UdpWouldBlock
    \/ E2EUdpDatagram
    \/ UdpReadError
    \/ TapWouldBlock
    \/ TapReadError
    \/ TapFrame
    \/ Idle
    \/ Arrive
    \/ TapArrive

\* The receiving side of one direction of a tunnel.
E2ESpec == Init /\ [][E2ENext]_vars

\* One invocation of the program, up to the call of tunnel() or the return
\* from main; what tunnel() does from there is TunnelStep.
Main ==
    /\ \E argc \in 1..MaxArgc : \E dashl \in BOOLEAN : \E e \in Envs :
          /\ dashl => argc >= 2
          /\ run' = main(argc, dashl, e, noncefile).run
          /\ noncefile' = main(argc, dashl, e, noncefile).file
    /\ prevrun' = [started |-> run.started, prefix |-> run.prefix]
    /\ UNCHANGED <<listen, pc, ret, tunnelState, nfds, udpReady, tapReady,
                   udpWaiting, tapWaiting, wire, tapw, tapin, rx, lastNonce>>

MainNext == Main

\* The program started again and again.
MainSpec == Init /\ [][MainNext]_vars

\* ------------------------------------------------------------------ claims

\* C1: every datagram put on the wire (startup keepalive, idle keepalive or
\* tap frame) carries a nonce strictly greater, by memcmp over the whole
\* nonce, than the nonce of the datagram sent before it.
C1_OutboundNoncesIncrease ==
    [][(wire' # <<>> /\ lastNonce # <<>>)
        => memcmp(lastNonce, wire'[1].nonce) < 0]_vars

\* C2: theirnonce changes only to a strictly greater nonce, and only on a
\* datagram that was fresh and decrypted; a stale datagram (a replay among
\* them) leaves it alone.
C2_AcceptedNoncesIncrease ==
    [][/\ theirnonce' # theirnonce
            => (memcmp(theirnonce, theirnonce') < 0 /\ rx'.kind = "ok")
       /\ rx'.kind = "stale" => theirnonce' = theirnonce]_vars

\* C3: a datagram that fails the freshness check or authentication leaves
\* theirnonce, peer, peerlen, biggest_rcvd and biggest_sent unchanged and
\* causes no tap write and no outbound datagram; peer changes only on a
\* fresh, successfully decrypted datagram (or when the connector sets it
\* at startup).
C3_RejectedLeavesState ==
    [][/\ rx'.kind \in {"stale", "forged"}
            => /\ UNCHANGED <<theirnonce, peer, peerlen, biggest_rcvd,
                              biggest_sent>>
               /\ tapw' = <<>>
               /\ wire' = <<>>
       /\ peer' # peer => (rx'.kind = "ok" \/ pc = "start")]_vars

\* C4: a listener whose peer is unknown reads no frame from the tap and
\* sends no datagram; its peer becomes known only on a successful decrypt,
\* and once known stays known.
C4_UnboundListenerSilent ==
    [][listen = 1 =>
        /\ ~PeerKnown(peer) => (wire' = <<>> /\ tapin' = 0)
        /\ (~PeerKnown(peer) /\ PeerKnown(peer')) => rx'.kind = "ok"
        /\ rx'.kind = "ok" => PeerKnown(peer')
        /\ PeerKnown(peer) => PeerKnown(peer')]_vars

\* C5: a decrypted payload is written to the tap exactly when
\* its length after the zero prefix is 64 or more.
C5_Threshold64AfterPrefix ==
    [][rx'.kind = "ok" => ((tapw' # <<>>) <=> (rx'.pay.plen >= 64))]_vars

\* C6: a fresh authenticated datagram makes its source the peer; every
\* datagram sent goes to the peer of the moment; and the peer changes only
\* on an authenticated datagram (or at the connector's startup).
C6_PeerFollowsAuthenticated ==
    [][/\ rx'.kind = "ok"
            => (peer' = rx'.from /\ peerlen' = AddrLen(rx'.from))
       /\ wire' # <<>>
            => (wire'[1].to = peer' /\ wire'[1].tolen = peerlen')
       /\ peer' # peer => (rx'.kind = "ok" \/ pc = "start")]_vars

\* C7: a step that reads a frame from the tap and does not end the tunnel
\* advances ournonce exactly once and puts exactly one datagram on the
\* wire, the frame just read, under the advanced nonce and to the peer of
\* that moment; frames go out nowhere else, so they go out in the order read.
C7_OneDatagramPerFrame ==
    [][/\ (tapin' # 0 /\ pc' # "done")
            => /\ ournonce' = update_nonce(ournonce)
               /\ wire' = << [kind |-> "frame", nonce |-> ournonce',
                              len |-> tapin', to |-> peer,
                              tolen |-> peerlen] >>
       /\ (wire' # <<>> /\ wire'[1].kind = "frame")
            => (Len(wire') = 1 /\ tapin' = wire'[1].len)]_vars

\* C7 witness: a frame was read and sent and the tunnel goes on.
C7_Witness ==
    pc = "tap" /\ tapin # 0 /\ Len(wire) = 1 /\ wire[1].kind = "frame"

\* C8: a decrypted datagram whose length with the zero prefix is 64 or more
\* gets exactly one tap write, of its payload, in the step that read it;
\* nothing else is written to the tap, in particular no keepalive; a failed
\* tap write ends the tunnel with -1, and an ended tunnel takes no step.
C8_OneTapWritePerFrame ==
    [][/\ (rx'.kind = "ok" /\ rx'.pay.plen + 32 >= 64)
            => (Len(tapw') = 1 /\ tapw'[1].len = rx'.pay.plen)
       /\ tapw' # <<>>
            => (rx'.kind = "ok" /\ ~(rx'.pay.plen = 3 /\ rx'.pay.fe))
       /\ (tapw' # <<>> /\ ~tapw'[1].ok) => (pc' = "done" /\ ret' = -1)
       /\ pc # "done"]_vars

\* C8 witness: the write of a decrypted frame failed and the tunnel ended.
C8_Witness ==
    rx.kind = "ok" /\ Len(tapw) = 1 /\ ~tapw[1].ok /\ pc = "done"

\* C9: with the counter at its maximum, the step that advances ournonce
\* ends the tunnel with a negative result and sends nothing.
C9_OverflowIsFatal ==
    [][(CounterMax(ournonce) /\ ournonce' # ournonce)
        => (pc' = "done" /\ ret' < 0 /\ wire' = <<>>)]_vars

\* A waiting frame has been read from the tap, or the tunnel has ended.
TapServed == tapin # 0 \/ pc = "done"

\* The waiting datagram has been read from the socket, or the tunnel has
\* ended.
UdpServed == ~udpWaiting \/ pc = "done"

\* C10: with the peer known a waiting frame is eventually read,
\* and a waiting datagram is eventually read, whatever arrives on the other
\* endpoint.
C10_NoStarvation ==
    /\ (PeerKnown(peer) /\ tapWaiting) ~> TapServed
    /\ udpWaiting ~> UdpServed

\* C11: a timeout with the peer known sends exactly one keepalive, which
\* advertises biggest_rcvd, and idle keepalives are sent on no other
\* occasion; an accepted keepalive advertising S makes biggest_sent the
\* larger of biggest_sent and S and writes nothing to the tap; and
\* biggest_rcvd, the size advertised, is always the length of a datagram
\* that was decrypted.
C11_KeepaliveCarriesBiggestRcvd ==
    [][/\ (pc = "idle" /\ pc' = "select" /\ nfds = 0 /\ PeerKnown(peer))
            => /\ Len(wire') = 1
               /\ wire'[1].kind = "keepalive"
               /\ AdvertSize(wire'[1].pay) = biggest_rcvd
               /\ wire'[1].to = peer
       /\ (wire' # <<>> /\ wire'[1].kind = "keepalive" /\ pc # "start")
            => (pc = "idle" /\ nfds = 0 /\ PeerKnown(peer))
       /\ (rx'.kind = "ok" /\ rx'.pay.plen = 3 /\ rx'.pay.fe)
            => /\ biggest_sent' = Max(biggest_sent, AdvertSize(rx'.pay))
               /\ tapw' = <<>>
       /\ biggest_rcvd' # biggest_rcvd
            => (rx'.kind = "ok" /\ biggest_rcvd' = rx'.pay.plen + 32)]_vars

\* An authenticated payload below the length written to the tap that is
\* not a three-byte 0xFE advertisement.
UnknownControl(r) ==
    r.kind = "ok" /\ r.pay.plen < 32 /\ ~(r.pay.plen = 3 /\ r.pay.fe)

\* C12: a datagram carrying an unknown or malformed control payload leaves
\* peer, biggest_rcvd and biggest_sent as they were.
C12_UnknownControlChangesNothing ==
    [][UnknownControl(rx')
        => UNCHANGED <<peer, biggest_rcvd, biggest_sent>>]_vars

\* C12, amended: a datagram carrying an unknown or malformed control
\* payload causes no tap write and no outbound datagram, leaves biggest_sent
\* as it was and does not end the tunnel; being authenticated, it makes its
\* source the peer and raises biggest_rcvd to its length.
C12_UnknownControlIsKeepalive ==
    [][UnknownControl(rx')
        => /\ tapw' = <<>>
           /\ wire' = <<>>
           /\ biggest_sent' = biggest_sent
           /\ pc' = pc
           /\ peer' = rx'.from
           /\ peerlen' = AddrLen(rx'.from)
           /\ biggest_rcvd' = Max(biggest_rcvd, rx'.pay.plen + 32)]_vars

\* C12 witness: the connector took a three-byte payload that does not start
\* with 0xFE, from another address than the server's.
C12_Witness ==
    /\ UnknownControl(rx)
    /\ rx.pay.plen = 3
    /\ listen = 0
    /\ peer = "a6"
    /\ biggest_rcvd = 35
    /\ biggest_sent = 0

\* C16: a negative result of udp_read or of decrypt (other than decrypt's
\* drop indication, which is C3's subject) never reaches the commit: the
\* step changes none of theirnonce, peer, peerlen, biggest_rcvd and
\* biggest_sent and writes nothing to the tap, and if it ends the tunnel
\* the tunnel returns a negative value.
C16_NegativeNeverCommits ==
    [][rx'.kind = "error"
        => /\ UNCHANGED <<theirnonce, peer, peerlen, biggest_rcvd,
                          biggest_sent>>
           /\ tapw' = <<>>
           /\ pc' = "done" => ret' < 0]_vars

\* C17: whenever a frame read from the tap is encrypted, the first
\* ZEROBYTES bytes of the plaintext buffer are zero.
C17_EncryptSeesZeroPrefix ==
    [][(pc = "tap" /\ tapin' # 0) => ptzero]_vars

\* Every nonce a run with this prefix can put on the wire.
RunNonces(prefix) ==
    { Advance(generate_nonce(prefix), k) : k \in 0..(Radix ^ CtrBytes - 1) }

Positionals(r) == r.argc - 1 - (IF r.dashl THEN 1 ELSE 0)

\* C14: a start that fails exits non-zero and leaves the nonce file with
\* the value it had before.
C14_FailedStartPersistsNothing ==
    [][(run'.argc > 0 /\ ~run'.started)
          => (run'.exit # 0 /\ noncefile' = noncefile)]_vars

\* C15: an invocation with fewer than six positional arguments returns
\* non-zero before it attaches the tap or opens a key or nonce file.
C15_MissingArgumentRejectedEarly ==
    [][(run'.argc > 0 /\ Positionals(run') < 6)
          => (run'.exit # 0 /\ run'.calls = <<>>)]_vars

\* C18: biggest_rcvd, biggest_sent and biggest_tried never decrease, and
\* biggest_sent never exceeds biggest_tried, when the peer runs the same
\* program.
C18_SentWithinTried ==
    [][/\ biggest_rcvd' >= biggest_rcvd
       /\ biggest_sent' >= biggest_sent
       /\ biggest_tried' >= biggest_tried
       /\ biggest_sent' <= biggest_tried']_vars

\* A nonce of this side's own direction: its side tag and its prefix.
OwnNonce(nonce) == nonce[1] = ournonce[1] /\ nonce[2] = ournonce[2]

\* C19: a side never accepts a datagram it sent itself: theirnonce never
\* becomes a nonce of the side's own direction.
C19_OwnDatagramNeverAccepted ==
    [][theirnonce' # theirnonce => ~OwnNonce(theirnonce')]_vars

\* Which of the sender's frames a nonce belongs to, 0 for none.
FrameIndex(nonce) ==
    IF \E k \in 1..MaxFrames : SenderNonce(k) = nonce
    THEN CHOOSE k \in 1..MaxFrames : SenderNonce(k) = nonce
    ELSE 0

\* C20: the frames written to the receiver's tap are frames of the sender
\* in the order the sender read them, none twice: each frame written was
\* sent later than the datagram accepted before it.
C20_FramesInSenderOrder ==
    [][(tapw' # <<>> /\ tapw'[1].ok)
          => FrameIndex(theirnonce') > FrameIndex(theirnonce)]_vars

====
